---- MODULE Spec2Model ----
(***************************************************************************)
(* Static-analysis pipeline of the 8086 assembly annotator (src/main.ts):  *)
(* analyzeWrites, markFunctions and analyzeLiveness over a parsed          *)
(* instruction stream, together with the register algebra and the          *)
(* instruction IO table they share.                                        *)
(*                                                                         *)
(* Instruction indices are 0-based as in the source.  A JavaScript Map is  *)
(* a function whose DOMAIN is its key set; a Set is a set.                 *)
(***************************************************************************)
EXTENDS Integers, Sequences, FiniteSets, TLC

(***************************************************************************)
(* Bounds of the model.                                                    *)
(***************************************************************************)
\* longest instruction stream that is enumerated exhaustively
MaxLen == 2
\* longest input text that is enumerated exhaustively
MaxText == 4

(***************************************************************************)
(* Operands and instructions (types of src/main.ts:155-200, 394-432).      *)
(***************************************************************************)
Undefined == "undefined"

RegisterOperand(r) == [type |-> "RegisterOperand", reg |-> r]
VariableOperand(n) == [type |-> "VariableOperand", name |-> n]
IntegerOperand(d) == [type |-> "IntegerOperand", digits |-> d, base |-> 10]
IndirectOperand(a) == [type |-> "IndirectOperand", address |-> a]
BinOpOperand(o, l, r) == [type |-> "BinOpOperand", op |-> o, lhs |-> l, rhs |-> r]
\* the disp field of a MemoryOperand that has no displacement
NoOperand == [type |-> Undefined]

MemoryOperand(b, x, d) == [type |-> "MemoryOperand", baseReg |-> b, indexReg |-> x, disp |-> d]

GenericInstruction(m, ops) == [type |-> "Instruction", mnemonic |-> m, operands |-> ops]
MovInstruction(d, s) == [type |-> "MovInstruction", mnemonic |-> "mov", dest |-> d, src |-> s]
JmpInstruction(m, t) == [type |-> "JmpInstruction", mnemonic |-> m, target |-> t]

\* the condition code the parser attaches to a conditional-jump mnemonic
JccMap ==
  [jc |-> "c", jb |-> "c", jnae |-> "c", jnc |-> "nc", jnb |-> "nc", jae |-> "nc",
   ja |-> "a", jnbe |-> "a", jna |-> "na", jbe |-> "na", jl |-> "l", jnge |-> "l",
   jge |-> "nl", jnl |-> "nl", jle |-> "le", jng |-> "le", jg |-> "nle", jnle |-> "nle",
   je |-> "z", jz |-> "z", jne |-> "nz", jnz |-> "nz", jo |-> "o", jno |-> "no",
   js |-> "s", jns |-> "ns", jp |-> "p", jpe |-> "p", jnp |-> "np", jpo |-> "np"]

JccInstruction(m, t) ==
  [type |-> "JccInstruction", mnemonic |-> m, condition |-> JccMap[m], target |-> t]

(***************************************************************************)
(* Register algebra (src/main.ts:1468-1561).                               *)
(***************************************************************************)
REG_NAMES ==
  {"al", "cl", "dl", "bl", "ah", "ch", "dh", "bh",
   "ax", "cx", "dx", "bx", "sp", "bp", "si", "di"}

NoSubRegs == [k \in {} |-> ""]

SUB_REGS(r) ==
  CASE r = "ax" -> [highByte |-> "ah", byte |-> "al"]
    [] r = "cx" -> [highByte |-> "ch", byte |-> "cl"]
    [] r = "dx" -> [highByte |-> "dh", byte |-> "dl"]
    [] r = "bx" -> [highByte |-> "bh", byte |-> "bl"]
    [] r = "hflags" -> [bit7 |-> "sf", bit6 |-> "zf", bit4 |-> "af", bit2 |-> "pf", bit0 |-> "cf"]
    [] r = "flags" -> [bit11 |-> "of", bit10 |-> "df", bit9 |-> "if", bit8 |-> "tf",
                       bit7 |-> "sf", bit6 |-> "zf", bit4 |-> "af", bit2 |-> "pf",
                       bit0 |-> "cf"]
    [] OTHER -> NoSubRegs

SubRegsOf(r) == {SUB_REGS(r)[k] : k \in DOMAIN SUB_REGS(r)}

SuperRegKeys == {"ax", "cx", "dx", "bx", "hflags", "flags"}

SUPER_REGS(r) == {s \in SuperRegKeys : r \in SubRegsOf(s)}

REG_COVERINGS ==
  [ax |-> {"ah", "al"}, cx |-> {"ch", "cl"}, dx |-> {"dh", "dl"}, bx |-> {"bh", "bl"}]

expandSubRegs(regs) == regs \cup UNION {SubRegsOf(r) : r \in regs}

\* expandCoverings without the sub-register expansion
expandCoveringsNoSubRegs(regs) ==
  regs \cup {s \in DOMAIN REG_COVERINGS : REG_COVERINGS[s] \subseteq regs}

expandCoverings(regs) ==
  LET subClosedRegs == expandSubRegs(regs)
  IN subClosedRegs \cup {s \in DOMAIN REG_COVERINGS : REG_COVERINGS[s] \subseteq subClosedRegs}

decomposeCoverings(regs) ==
  LET supers == {s \in DOMAIN REG_COVERINGS : s \in regs}
  IN (regs \ supers) \cup UNION {REG_COVERINGS[s] : s \in supers}

expandAliases(reg) ==
  LET subClosedRegs == expandSubRegs(reg)
  IN subClosedRegs \cup UNION {SUPER_REGS(r) : r \in subClosedRegs}

(***************************************************************************)
(* Instruction IO model (src/main.ts:1563-1836).  instructionIO returns    *)
(* the pair <<uses, defines>>.                                             *)
(***************************************************************************)
asRegister(operand) == Undefined

operandAsDest(op) == IF op.type = "RegisterOperand" THEN {op.reg} ELSE {}

RECURSIVE operandAsSrc(_)
operandAsSrc(op) ==
  CASE op.type = "RegisterOperand" -> {op.reg}
    [] op.type = "IndirectOperand" -> operandAsSrc(op.address)
    [] op.type = "MemoryOperand" ->
         (IF op.baseReg # Undefined THEN {op.baseReg} ELSE {})
         \cup (IF op.indexReg # Undefined THEN {op.indexReg} ELSE {})
         \cup (IF op.disp.type # Undefined THEN operandAsSrc(op.disp) ELSE {})
    [] op.type = "BinOpOperand" -> operandAsSrc(op.lhs) \cup operandAsSrc(op.rhs)
    [] op.type = "UnOpOperand" -> operandAsSrc(op.arg)
    [] OTHER -> {}

dest(inst) ==
  IF Len(inst.operands) = 0 THEN {}
  ELSE LET reg == asRegister(inst.operands[1])
       IN IF reg # Undefined THEN {reg} ELSE {}

RECURSIVE srcSearch(_)
srcSearch(op) ==
  CASE op.type = "RegisterOperand" -> {op.reg}
    [] op.type = "IndirectOperand" -> srcSearch(op.address)
    [] op.type = "BinOpOperand" -> srcSearch(op.lhs) \cup srcSearch(op.rhs)
    [] op.type = "UnOpOperand" -> srcSearch(op.arg)
    [] OTHER -> {}

src(inst) == UNION {srcSearch(inst.operands[k]) : k \in 1..Len(inst.operands)}

isSelfOp(inst) ==
  /\ Len(inst.operands) = 2
  /\ inst.operands[1].type = "RegisterOperand"
  /\ inst.operands[2].type = "RegisterOperand"
  /\ inst.operands[1].reg = inst.operands[2].reg

Regs16 == {"ax", "cx", "dx", "bx", "sp", "bp", "si", "di"}

JccUses(condition) ==
  CASE condition \in {"c", "nc"} -> {"cf"}
    [] condition \in {"a", "na"} -> {"cf", "zf"}
    [] condition \in {"l", "nl"} -> {"of", "sf"}
    [] condition \in {"le", "nle"} -> {"of", "sf", "zf"}
    [] condition \in {"z", "nz"} -> {"zf"}
    [] condition \in {"o", "no"} -> {"of"}
    [] condition \in {"s", "ns"} -> {"sf"}
    [] condition \in {"p", "np"} -> {"pf"}

GenericIO(inst) ==
  LET m == inst.mnemonic
  IN CASE m \in {"add", "sub", "and", "or", "xor", "neg"} ->
            IF isSelfOp(inst) /\ m \in {"and", "or"} THEN <<src(inst), {"flags"}>>
            ELSE IF isSelfOp(inst) /\ m = "xor" THEN <<{}, dest(inst) \cup {"flags"}>>
            ELSE <<src(inst), dest(inst) \cup {"flags"}>>
       [] m \in {"adc", "sbb"} -> <<src(inst) \cup {"cf"}, dest(inst) \cup {"flags"}>>
       [] m \in {"cmp", "test"} -> <<src(inst), {"flags"}>>
       [] m = "not" -> <<src(inst), dest(inst)>>
       [] m = "div" ->
            IF src(inst) \cap Regs16 # {}
            THEN <<src(inst) \cup {"ax", "dx"}, dest(inst) \cup {"ax", "dx", "flags"}>>
            ELSE <<src(inst) \cup {"al", "ah"}, dest(inst) \cup {"al", "ah", "flags"}>>
       [] m = "mul" ->
            IF src(inst) \cap Regs16 # {}
            THEN <<src(inst) \cup {"ax"}, dest(inst) \cup {"ax", "dx", "flags"}>>
            ELSE <<src(inst) \cup {"al"}, dest(inst) \cup {"al", "ah", "flags"}>>
       [] m = "aam" -> <<{"al"}, {"al", "ah", "flags"}>>
       [] m = "call" -> <<{}, {}>>
       [] m = "cbw" -> <<{"al"}, {"al", "ah"}>>
       [] m = "cmc" -> <<{"cf"}, {"cf"}>>
       [] m = "cmpb" -> <<{"si", "di"}, {"flags"}>>
       [] m \in {"dec", "inc"} -> <<src(inst), dest(inst) \cup {"of", "sf", "zf", "af", "pf"}>>
       [] m = "int" -> <<{}, {}>>
       [] m = "lahf" -> <<{"sf", "zf", "af", "pf", "cf"}, {"ah"}>>
       [] m = "sahf" -> <<{"ah"}, {"sf", "zf", "af", "pf", "cf"}>>
       [] m = "lodb" -> <<{"si"}, {"al"}>>
       [] m = "lodw" -> <<{"si"}, {"ax"}>>
       [] m = "loop" -> <<{"cx"}, {"cx"}>>
       [] m = "xchg" ->
            IF isSelfOp(inst) THEN <<{}, {}>>
            ELSE <<src(inst), dest(inst) \cup {"flags"}>>
       [] m \in {"movb", "movw"} -> <<{"si", "di"}, {}>>
       [] m = "pop" -> <<{"sp"}, {"sp"} \cup dest(inst)>>
       [] m = "push" -> <<{"sp"} \cup src(inst), {"sp"}>>
       [] m \in {"rcl", "rcr"} -> <<src(inst) \cup {"cf"}, dest(inst) \cup {"cf", "of"}>>
       [] m \in {"rol", "ror"} -> <<src(inst), dest(inst) \cup {"cf", "of"}>>
       [] m \in {"rep", "repe", "repne", "repnz"} -> <<{}, {}>>
       [] m = "ret" -> <<{"sp"}, {"sp"}>>
       [] m \in {"scab", "scasb"} -> <<{"al", "di"}, {"flags"}>>
       [] m \in {"shl", "shr"} -> <<src(inst), dest(inst) \cup {"flags"}>>
       [] m \in {"stc", "clc"} -> <<{}, {"cf"}>>
       [] m \in {"cld", "std", "down", "up"} -> <<{}, {"cd"}>>
       [] m = "stob" -> <<{"al", "di"}, {}>>
       [] m = "stow" -> <<{"ax", "di"}, {}>>
       [] m = "xlat" -> <<{"al", "bx"}, {"al"}>>
       [] OTHER -> <<{}, {}>>

instructionIOImpl(inst) ==
  CASE inst.type = "MovInstruction" -> <<operandAsSrc(inst.src), operandAsDest(inst.dest)>>
    [] inst.type = "JmpInstruction" -> <<{}, {}>>
    [] inst.type = "JccInstruction" -> <<JccUses(inst.condition), {}>>
    [] OTHER -> GenericIO(inst)

instructionIO(inst) == instructionIOImpl(inst)

(***************************************************************************)
(* Write summaries (src/main.ts:890-905).  A write value is "any", a       *)
(* register name, or a StackAlias; sp is a number or "any".                *)
(***************************************************************************)
AnyValue == [kind |-> "any"]
Reg(r) == [kind |-> "reg", reg |-> r]
StackAlias(idx, sz) == [kind |-> "StackAlias", index |-> idx, size |-> sz]

SpNum(n) == [any |-> FALSE, n |-> n]
SpAny == [any |-> TRUE, n |-> 0]

EmptyMap == [k \in {} |-> AnyValue]

emptyWriteData == [writes |-> EmptyMap, returnsAt |-> {}, sp |-> SpNum(0)]

\* a ret recorded as returning at index 0
retWriteDataAtStart(at) == [writes |-> EmptyMap, returnsAt |-> {0}, sp |-> SpNum(0)]

retWriteData(at) == [writes |-> EmptyMap, returnsAt |-> {at}, sp |-> SpNum(0)]

pushWrites(writeSrc, offset) ==
  IF writeSrc.returnsAt = {} THEN emptyWriteData
  ELSE [writes |->
          [key \in DOMAIN writeSrc.writes |->
             LET value == writeSrc.writes[key]
             IN IF value.kind = "StackAlias"
                THEN StackAlias(value.index + offset, value.size)
                ELSE value],
        returnsAt |-> writeSrc.returnsAt,
        sp |-> IF writeSrc.sp.any THEN SpAny ELSE SpNum(writeSrc.sp.n + offset)]

\* popWrites: the keys pushed on restoreList, the map before the restore
\* loop, the bindings the restore loop sets, and the final self-map deletion.
popRestoreList(writeSrc, resultReg) ==
  {key \in DOMAIN writeSrc.writes :
     LET value == writeSrc.writes[key]
     IN /\ value.kind = "StackAlias"
        /\ value.index = 0
        /\ value.size = 2
        /\ resultReg # Undefined}

popShifted(writeSrc, offset, resultReg) ==
  [key \in DOMAIN writeSrc.writes \ popRestoreList(writeSrc, resultReg) |->
     LET value == writeSrc.writes[key]
     IN IF value.kind = "StackAlias"
        THEN IF value.index < offset
             THEN AnyValue
             ELSE StackAlias(value.index - offset, value.size)
        ELSE value]

\* (the restore loop runs only for a defined resultReg; where a key is both on
\* restoreList and a sub-register of another member, the sub-register binding is kept)
popRestored(restoreList, resultReg) ==
  LET subTargets ==
        {<<r, k>> \in restoreList \X {"highByte", "byte"} :
           k \in DOMAIN SUB_REGS(r) /\ k \in DOMAIN SUB_REGS(resultReg)}
      subKeys == {SUB_REGS(t[1])[t[2]] : t \in subTargets}
      subMap ==
        [s \in subKeys |->
           LET t == CHOOSE t \in subTargets : SUB_REGS(t[1])[t[2]] = s
           IN Reg(SUB_REGS(resultReg)[t[2]])]
  IN subMap @@ [r \in restoreList |-> Reg(resultReg)]

\* popWrites without the early return for a suffix that does not return
popWritesNoReturnCheck(writeSrc, offset, resultReg) ==
  LET restoreList == popRestoreList(writeSrc, resultReg)
      newWrites ==
        popRestored(restoreList, resultReg) @@ popShifted(writeSrc, offset, resultReg)
      kept == {key \in DOMAIN newWrites : newWrites[key] # Reg(key)}
  IN [writes |-> [key \in kept |-> newWrites[key]],
      returnsAt |-> writeSrc.returnsAt,
      sp |-> IF writeSrc.sp.any THEN SpAny ELSE SpNum(writeSrc.sp.n - offset)]

popWrites(writeSrc, offset, resultReg) ==
  IF writeSrc.returnsAt = {} THEN emptyWriteData
  ELSE LET restoreList == popRestoreList(writeSrc, resultReg)
           newWrites ==
             popRestored(restoreList, resultReg) @@ popShifted(writeSrc, offset, resultReg)
           kept == {key \in DOMAIN newWrites : newWrites[key] # Reg(key)}
       IN [writes |-> [key \in kept |-> newWrites[key]],
           returnsAt |-> writeSrc.returnsAt,
           sp |-> IF writeSrc.sp.any THEN SpAny ELSE SpNum(writeSrc.sp.n - offset)]

\* seqWrites without the early return for a suffix that does not return
seqWritesNoReturnCheck(next, mapping) ==
  [writes |->
     [key \in DOMAIN next.writes \cup DOMAIN mapping |->
        IF key \in DOMAIN next.writes
        THEN LET value == next.writes[key]
             IN IF value.kind = "reg" /\ value.reg \in DOMAIN mapping
                THEN mapping[value.reg]
                ELSE value
        ELSE mapping[key]],
   returnsAt |-> next.returnsAt,
   sp |-> next.sp]

seqWrites(next, mapping) ==
  IF next.returnsAt = {} THEN emptyWriteData
  ELSE [writes |->
          [key \in DOMAIN next.writes \cup DOMAIN mapping |->
             IF key \in DOMAIN next.writes
             THEN LET value == next.writes[key]
                  IN IF value.kind = "reg" /\ value.reg \in DOMAIN mapping
                     THEN mapping[value.reg]
                     ELSE value
             ELSE mapping[key]],
        returnsAt |-> next.returnsAt,
        sp |-> next.sp]

mergeValue(value1, value2) ==
  IF value1.kind = "reg" /\ value2.kind = "reg" /\ value1.reg = value2.reg THEN value1
  ELSE IF /\ value1.kind = "StackAlias" /\ value2.kind = "StackAlias"
          /\ value1.index = value2.index /\ value1.size = value2.size
       THEN value1
       ELSE AnyValue

mergeWrites(write1, write2) ==
  IF write1.returnsAt = {} THEN write2
  ELSE IF write2.returnsAt = {} THEN write1
  ELSE [writes |->
          [key \in DOMAIN write1.writes \cup DOMAIN write2.writes |->
             IF key \notin DOMAIN write2.writes THEN write1.writes[key]
             ELSE IF key \notin DOMAIN write1.writes THEN write2.writes[key]
             ELSE mergeValue(write1.writes[key], write2.writes[key])],
        returnsAt |-> write1.returnsAt \cup write2.returnsAt,
        sp |-> IF write1.sp.any \/ write2.sp.any THEN SpAny
               ELSE IF write1.sp.n = write2.sp.n THEN write1.sp ELSE SpAny]

\* the result of Map.get on a key that is not in the map
UndefinedValue == [kind |-> Undefined]

level(v) ==
  IF v.kind = "any" THEN 3
  ELSE IF v.kind = "reg" THEN 2
  ELSE IF v.kind = "StackAlias" THEN 2
  ELSE 1

valueAt(writes, key) == IF key \in DOMAIN writes THEN writes[key] ELSE UndefinedValue

\* updateWrites overwriting every key of the source, whatever the levels
raisedKeysUnguarded(writeDataDest, writeDataSrc) == DOMAIN writeDataSrc.writes

\* the keys updateWrites overwrites in the destination
raisedKeys(writeDataDest, writeDataSrc) ==
  {key \in DOMAIN writeDataSrc.writes :
     level(writeDataSrc.writes[key]) > level(valueAt(writeDataDest.writes, key))}

\* updateWrites: the destination after the call, and the boolean it returns
updateWrites(writeDataDest, writeDataSrc) ==
  LET raised == raisedKeys(writeDataDest, writeDataSrc)
  IN [writes |-> [key \in raised |-> writeDataSrc.writes[key]] @@ writeDataDest.writes,
      returnsAt |-> writeDataDest.returnsAt \cup writeDataSrc.returnsAt,
      sp |-> writeDataSrc.sp]

\* a changed flag that is raised by every call
updateWritesChangedAlways(writeDataDest, writeDataSrc) == TRUE

updateWritesChanged(writeDataDest, writeDataSrc) ==
  \/ raisedKeys(writeDataDest, writeDataSrc) # {}
  \/ ~(writeDataSrc.returnsAt \subseteq writeDataDest.returnsAt)

(***************************************************************************)
(* Front end (src/main.ts:72-392): trimSub, tokenize and parseLines.  A    *)
(* text is a sequence of one-character strings; the text of a token is the *)
(* sequence of its characters, and join gives the string the parser stores *)
(* in an operand or a mnemonic.  Token and line metadata (line numbers,    *)
(* comments) do not influence the parse and are left out.                  *)
(***************************************************************************)
\* the control-Z character, 0x1A
SUB == "^Z"

\* the characters the dot of a regular expression does not match
LineTerminators == {"\n", "\r"}

LowerLetters ==
  {"a", "b", "c", "d", "e", "f", "g", "h", "i", "j", "k", "l", "m",
   "n", "o", "p", "q", "r", "s", "t", "u", "v", "w", "x", "y", "z"}
UpperLetters ==
  {"A", "B", "C", "D", "E", "F", "G", "H", "I", "J", "K", "L", "M",
   "N", "O", "P", "Q", "R", "S", "T", "U", "V", "W", "X", "Y", "Z"}
Letters == LowerLetters \cup UpperLetters
Digits == {"0", "1", "2", "3", "4", "5", "6", "7", "8", "9"}
HexDigits == Digits \cup {"a", "b", "c", "d", "e", "f", "A", "B", "C", "D", "E", "F"}

LowerOf ==
  [A |-> "a", B |-> "b", C |-> "c", D |-> "d", E |-> "e", F |-> "f", G |-> "g",
   H |-> "h", I |-> "i", J |-> "j", K |-> "k", L |-> "l", M |-> "m", N |-> "n",
   O |-> "o", P |-> "p", Q |-> "q", R |-> "r", S |-> "s", T |-> "t", U |-> "u",
   V |-> "v", W |-> "w", X |-> "x", Y |-> "y", Z |-> "z"]

toLowerCase(chars) ==
  [k \in 1..Len(chars) |-> IF chars[k] \in UpperLetters THEN LowerOf[chars[k]] ELSE chars[k]]

\* the string made of the characters of chars
RECURSIVE join(_)
join(chars) == IF chars = <<>> THEN "" ELSE Head(chars) \o join(Tail(chars))

\* text.replace(/\x1A.*/g, ""): from position k on, with matching true while the
\* characters belong to a match that began at a control-Z on the same line
RECURSIVE replaceSubMatches(_, _, _, _)
replaceSubMatches(chars, k, matching, out) ==
  IF k > Len(chars) THEN out
  ELSE IF matching
       THEN IF chars[k] \in LineTerminators
            THEN replaceSubMatches(chars, k + 1, FALSE, Append(out, chars[k]))
            ELSE replaceSubMatches(chars, k + 1, TRUE, out)
       ELSE IF chars[k] = SUB
            THEN replaceSubMatches(chars, k + 1, TRUE, out)
            ELSE replaceSubMatches(chars, k + 1, FALSE, Append(out, chars[k]))

trimSub(chars) == replaceSubMatches(chars, 1, FALSE, <<>>)

\* the first position from k on (1-based, Len + 1 at the end) whose character is
\* outside class, and the first one whose character is in stop
RECURSIVE scanWhile(_, _, _)
scanWhile(chars, k, class) ==
  IF k <= Len(chars) /\ chars[k] \in class THEN scanWhile(chars, k + 1, class) ELSE k

RECURSIVE scanUntil(_, _, _)
scanUntil(chars, k, stop) ==
  IF k <= Len(chars) /\ chars[k] \notin stop THEN scanUntil(chars, k + 1, stop) ELSE k

Token(chars) == [text |-> chars]

\* the while loop of tokenize from position k on (1-based)
RECURSIVE tokenizeFrom(_, _, _, _)
tokenizeFrom(chars, k, toks, tokenInLine) ==
  IF k > Len(chars) THEN toks
  ELSE LET c == chars[k]
       IN CASE c \in {" ", "\t"} -> tokenizeFrom(chars, k + 1, toks, tokenInLine)
            [] c = ";" ->
                 tokenizeFrom(chars, scanUntil(chars, k, {"\n"}), toks, tokenInLine)
            [] c = "\n" ->
                 tokenizeFrom(chars, k + 1,
                              IF tokenInLine THEN Append(toks, Token(<<"\n">>)) ELSE toks,
                              FALSE)
            [] c \in Letters \cup Digits ->
                 LET end == scanWhile(chars, k, Letters \cup Digits \cup {"_"})
                 IN tokenizeFrom(chars, end, Append(toks, Token(SubSeq(chars, k, end - 1))),
                                 TRUE)
            [] c \in {"\"", "'"} ->
                 LET end == scanUntil(chars, k + 1, {c, "\n"}) + 1
                     last == IF end - 1 > Len(chars) THEN Len(chars) ELSE end - 1
                 IN tokenizeFrom(chars, end, Append(toks, Token(SubSeq(chars, k, last))), TRUE)
            [] OTHER -> tokenizeFrom(chars, k + 1, Append(toks, Token(<<c>>)), TRUE)

tokenize(chars) == tokenizeFrom(chars, 1, <<>>, FALSE)

StringOperand(t) == [type |-> "StringOperand", text |-> t]
UnOpOperand(o, a) == [type |-> "UnOpOperand", op |-> o, arg |-> a]
GarbageOperand(m) == [type |-> "GarbageOperand", message |-> m]
Label(n) == [type |-> "Label", name |-> n]

\* tokens[k].text for a 0-based k
tokenText(toks, k) == toks[k + 1].text

startsWith(chars, class) == Len(chars) > 0 /\ chars[1] \in class

allIn(chars, from, to, class) == \A k \in from..to : chars[k] \in class

\* /^(equ|db|dw|ds|dm)$/i
isDataDirective(chars) == join(toLowerCase(chars)) \in {"equ", "db", "dw", "ds", "dm"}

\* /^'.*'$/ and /^".*"$/
isQuoted(chars, delim) ==
  /\ Len(chars) >= 2
  /\ chars[1] = delim
  /\ chars[Len(chars)] = delim
  /\ \A k \in 2..(Len(chars) - 1) : chars[k] \notin LineTerminators

\* the operand of a token that starts with a letter or a digit
wordOperand(chars) ==
  IF join(toLowerCase(chars)) \in REG_NAMES
  THEN RegisterOperand(join(toLowerCase(chars)))
  ELSE IF chars[1] \in Letters /\ allIn(chars, 2, Len(chars), Letters \cup Digits)
  THEN VariableOperand(join(chars))
  ELSE IF allIn(chars, 1, Len(chars), Digits)
  THEN IntegerOperand(join(chars))
  ELSE IF /\ Len(chars) >= 2
          /\ chars[1] \in Digits
          /\ allIn(chars, 2, Len(chars) - 1, HexDigits)
          /\ chars[Len(chars)] \in {"h", "H"}
  THEN [IntegerOperand(join(SubSeq(chars, 1, Len(chars) - 1))) EXCEPT !.base = 16]
  ELSE GarbageOperand("Invalid operand: " \o join(chars))

\* parseOperand1 and parseOperand2 at the 0-based position k: the operand, the position
\* after it, and whether a TypeError was raised on the way
RECURSIVE parseOperand1(_, _)
RECURSIVE parseOperand2(_, _)
RECURSIVE parseOperand2Loop(_, _)

parsedOperand(operand, k) == [operand |-> operand, i |-> k, threw |-> FALSE]

\* operand = { type: "BinOpOperand", op, lhs: operand, rhs }
binOpParsed(op, lhs, rhs) ==
  [operand |-> BinOpOperand(op, lhs, rhs.operand), i |-> rhs.i, threw |-> rhs.threw]

\* the while loop of parseOperand2.  Its condition is
\*   i < tokens.length && tokens[i].text === "+" || tokens[i].text === "-"
\* which reads tokens[i].text also when i >= tokens.length, where tokens[i] is undefined
parseOperand2Loop(toks, st) ==
  IF st.threw THEN st
  ELSE IF st.i >= Len(toks) THEN [st EXCEPT !.threw = TRUE]
  ELSE IF tokenText(toks, st.i) \in {<<"+">>, <<"-">>}
  THEN parseOperand2Loop(toks,
         binOpParsed(join(tokenText(toks, st.i)), st.operand, parseOperand1(toks, st.i + 1)))
  ELSE st

parseOperand2(toks, k) == parseOperand2Loop(toks, parseOperand1(toks, k))

\* the "[" case of parseOperand1 after the address has been parsed
bracketParsed(toks, address) ==
  IF address.threw THEN address
  ELSE IF address.i >= Len(toks)
  THEN parsedOperand(GarbageOperand("Unclosed bracket: EOL"), address.i)
  ELSE IF tokenText(toks, address.i) # <<"]">>
  THEN parsedOperand(
         GarbageOperand("Unclosed bracket: found: " \o join(tokenText(toks, address.i))),
         address.i)
  ELSE parsedOperand(IndirectOperand(address.operand), address.i + 1)

\* the unary case of parseOperand1 after the argument has been parsed
unOpParsed(op, arg) ==
  [operand |-> UnOpOperand(op, arg.operand), i |-> arg.i, threw |-> arg.threw]

parseOperand1(toks, k) ==
  IF k >= Len(toks)
  THEN parsedOperand(GarbageOperand("End of line"), k)
  ELSE CASE tokenText(toks, k) = <<"[">> -> bracketParsed(toks, parseOperand2(toks, k + 1))
         [] tokenText(toks, k) \in {<<"+">>, <<"-">>} ->
              unOpParsed(join(tokenText(toks, k)), parseOperand1(toks, k + 1))
         [] startsWith(tokenText(toks, k), Letters \cup Digits) ->
              parsedOperand(wordOperand(tokenText(toks, k)), k + 1)
         [] isQuoted(tokenText(toks, k), "'") \/ isQuoted(tokenText(toks, k), "\"") ->
              parsedOperand(
                StringOperand(join(SubSeq(tokenText(toks, k), 2,
                                          Len(tokenText(toks, k)) - 1))),
                k + 1)
         [] tokenText(toks, k) = <<"$">> -> parsedOperand(VariableOperand("$"), k + 1)
         [] OTHER ->
              parsedOperand(GarbageOperand("Invalid operand: " \o join(tokenText(toks, k))),
                            k + 1)

\* the operand loop of parseGenericInstruction from the 0-based position k on, and its
\* body after the operand has been parsed
RECURSIVE parseOperands(_, _, _)
RECURSIVE pushOperand(_, _, _)
pushOperand(toks, operands, operand) ==
  IF operand.threw
  THEN [operands |-> operands, i |-> operand.i, threw |-> TRUE]
  ELSE IF operand.i < Len(toks) /\ tokenText(toks, operand.i) = <<",">>
  THEN parseOperands(toks, operand.i + 1, Append(operands, operand.operand))
  ELSE [operands |-> Append(operands, operand.operand), i |-> operand.i, threw |-> FALSE]

parseOperands(toks, k, operands) ==
  IF k < Len(toks) /\ tokenText(toks, k) # <<"\n">>
  THEN pushOperand(toks, operands, parseOperand2(toks, k))
  ELSE [operands |-> operands, i |-> k, threw |-> FALSE]

\* the return statement of parseGenericInstruction
genericParsed(mnemonic, parsed) ==
  [line |-> GenericInstruction(mnemonic, parsed.operands), i |-> parsed.i,
   threw |-> parsed.threw]

parseGenericInstruction(toks, k) ==
  genericParsed(join(toLowerCase(tokenText(toks, k))), parseOperands(toks, k + 1, <<>>))

\* the outcome of a conversion that throws StructuredInstructionParseError
ParseError == [type |-> "StructuredInstructionParseError"]

\* the UnOpOperand case of parseMemoryOperandFromAddressPart after the recursive call
unOpMemoryOperand(op, arg) ==
  IF arg = ParseError THEN ParseError
  ELSE IF op = "+" THEN arg
  ELSE IF arg.baseReg # Undefined \/ arg.indexReg # Undefined THEN ParseError
  ELSE IF arg.disp.type = Undefined THEN ParseError
  ELSE MemoryOperand(Undefined, Undefined, UnOpOperand(op, arg.disp))

\* the BinOpOperand case of parseMemoryOperandFromAddressPart after the recursive calls
binOpMemoryOperand(op, lhs, rhs) ==
  IF lhs = ParseError \/ rhs = ParseError THEN ParseError
  ELSE IF \/ lhs.baseReg # Undefined /\ rhs.baseReg # Undefined
          \/ lhs.indexReg # Undefined /\ rhs.indexReg # Undefined
  THEN ParseError
  ELSE IF op = "-" /\ (rhs.baseReg # Undefined \/ lhs.baseReg # Undefined)
  THEN ParseError
  ELSE IF lhs.disp.type = Undefined /\ rhs.disp.type = Undefined THEN ParseError
  ELSE MemoryOperand(
         IF lhs.baseReg # Undefined THEN lhs.baseReg ELSE rhs.baseReg,
         IF lhs.indexReg # Undefined THEN lhs.indexReg ELSE rhs.indexReg,
         IF lhs.disp.type # Undefined /\ rhs.disp.type # Undefined
         THEN BinOpOperand(op, lhs.disp, rhs.disp)
         ELSE IF lhs.disp.type # Undefined THEN lhs.disp
         ELSE IF op = "-" THEN UnOpOperand("-", rhs.disp)
         ELSE rhs.disp)

RECURSIVE parseMemoryOperandFromAddressPart(_)
parseMemoryOperandFromAddressPart(operand) ==
  CASE operand.type \in {"VariableOperand", "IntegerOperand", "StringOperand"} ->
         MemoryOperand(Undefined, Undefined, operand)
    [] operand.type = "RegisterOperand" ->
         IF operand.reg \in {"bx", "bp"}
         THEN MemoryOperand(operand.reg, Undefined, NoOperand)
         ELSE IF operand.reg \in {"si", "di"}
         THEN MemoryOperand(Undefined, operand.reg, NoOperand)
         ELSE ParseError
    [] operand.type = "UnOpOperand" ->
         unOpMemoryOperand(operand.op, parseMemoryOperandFromAddressPart(operand.arg))
    [] operand.type = "BinOpOperand" ->
         binOpMemoryOperand(operand.op, parseMemoryOperandFromAddressPart(operand.lhs),
                            parseMemoryOperandFromAddressPart(operand.rhs))
    [] OTHER -> ParseError

parseMemoryOperand(operand) ==
  IF operand.type = "IndirectOperand"
  THEN parseMemoryOperandFromAddressPart(operand.address)
  ELSE ParseError

\* the UnOpOperand and BinOpOperand cases of parseImmediateOperand after the recursive
\* calls
unOpImmediateOperand(op, arg) ==
  IF arg = ParseError THEN ParseError ELSE UnOpOperand(op, arg)

binOpImmediateOperand(op, lhs, rhs) ==
  IF lhs = ParseError \/ rhs = ParseError THEN ParseError ELSE BinOpOperand(op, lhs, rhs)

RECURSIVE parseImmediateOperand(_)
parseImmediateOperand(operand) ==
  CASE operand.type \in {"VariableOperand", "IntegerOperand", "StringOperand"} -> operand
    [] operand.type = "UnOpOperand" ->
         unOpImmediateOperand(operand.op, parseImmediateOperand(operand.arg))
    [] operand.type = "BinOpOperand" ->
         binOpImmediateOperand(operand.op, parseImmediateOperand(operand.lhs),
                               parseImmediateOperand(operand.rhs))
    [] OTHER -> ParseError

parseRegisterOrMemoryOperand(operand) ==
  IF operand.type = "RegisterOperand" THEN operand
  ELSE IF operand.type = "IndirectOperand" THEN parseMemoryOperand(operand)
  ELSE ParseError

parseRegisterOrMemoryOrImmediateOperand(operand) ==
  IF operand.type = "RegisterOperand" THEN operand
  ELSE IF operand.type = "IndirectOperand" THEN parseMemoryOperand(operand)
  ELSE parseImmediateOperand(operand)

\* the mnemonics of the conditional-jump case of parseStructuredInstruction
JccMnemonics ==
  {"ja", "jna", "jbe", "jnbe", "jg", "jng", "jle", "jnle", "jge", "jnge", "jl", "jnl",
   "jo", "jno", "js", "jns", "je", "jne", "jz", "jnz", "jnp", "jpe", "jpo", "jae",
   "jnae", "jb", "jnb", "jc", "jnc"}

\* the return statements of the three cases of parseStructuredInstruction
jmpStructured(mnemonic, target) ==
  IF target = ParseError THEN ParseError ELSE JmpInstruction(mnemonic, target)

jccStructured(mnemonic, target) ==
  IF target = ParseError THEN ParseError ELSE JccInstruction(mnemonic, target)

movStructured(destOperand, srcOperand) ==
  IF destOperand = ParseError \/ srcOperand = ParseError
  THEN ParseError
  ELSE MovInstruction(destOperand, srcOperand)

\* the structured instruction, or ParseError where StructuredInstructionParseError is thrown
parseStructuredInstruction(instruction) ==
  CASE instruction.mnemonic \in {"jp", "jmp", "jmps"} ->
         IF Len(instruction.operands) # 1 THEN ParseError
         ELSE jmpStructured(instruction.mnemonic,
                parseRegisterOrMemoryOrImmediateOperand(instruction.operands[1]))
    [] instruction.mnemonic \in JccMnemonics ->
         IF Len(instruction.operands) # 1 THEN ParseError
         ELSE jccStructured(instruction.mnemonic,
                parseRegisterOrMemoryOrImmediateOperand(instruction.operands[1]))
    [] instruction.mnemonic = "mov" ->
         IF Len(instruction.operands) \notin {2, 3} THEN ParseError
         ELSE movStructured(
                parseRegisterOrMemoryOperand(
                  instruction.operands[Len(instruction.operands) - 1]),
                parseRegisterOrMemoryOrImmediateOperand(
                  instruction.operands[Len(instruction.operands)]))
    [] OTHER -> ParseError

\* the try and catch of parseLines: the generic instruction is kept where
\* parseStructuredInstruction throws
structuredOrGeneric(generic, structured) ==
  IF structured = ParseError THEN generic ELSE [generic EXCEPT !.line = structured]

instructionParsed(generic) ==
  IF generic.threw THEN generic
  ELSE structuredOrGeneric(generic, parseStructuredInstruction(generic.line))

\* one iteration of the while loop of parseLines at the 0-based position k: the line
\* pushed (NoOperand when none is), the position after it, whether a TypeError was raised
parseLine(toks, k) ==
  IF /\ k + 1 < Len(toks)
     /\ startsWith(tokenText(toks, k), Letters)
     /\ tokenText(toks, k + 1) = <<":">>
  THEN [line |-> Label(join(tokenText(toks, k))), i |-> k + 2, threw |-> FALSE]
  ELSE IF /\ k + 1 < Len(toks)
          /\ startsWith(tokenText(toks, k), Letters)
          /\ isDataDirective(tokenText(toks, k + 1))
  THEN [line |-> Label(join(tokenText(toks, k))), i |-> k + 1, threw |-> FALSE]
  ELSE IF startsWith(tokenText(toks, k), Letters)
  THEN instructionParsed(parseGenericInstruction(toks, k))
  ELSE IF tokenText(toks, k) = <<"\n">>
  THEN [line |-> NoOperand, i |-> k + 1, threw |-> FALSE]
  ELSE [line |-> GenericInstruction("garbage:" \o join(tokenText(toks, k)), <<>>),
        i |-> k + 1, threw |-> FALSE]

(***************************************************************************)
(* Instruction streams the analyses are run on.  A stream is what          *)
(* analyzeLabels (src/main.ts:869-888) returns: the instruction array and  *)
(* the label table (name -> index of the next instruction).                *)
(***************************************************************************)
Program(instrs, labelTable) ==
  [instructions |-> [k \in 0..(Len(instrs) - 1) |-> instrs[k + 1]],
   labels |-> labelTable]

NoLabels == [n \in {} |-> 0]

r(name) == RegisterOperand(name)
v(name) == VariableOperand(name)
g1(m, op) == GenericInstruction(m, <<op>>)
g2(m, op1, op2) == GenericInstruction(m, <<op1, op2>>)
RET == GenericInstruction("ret", <<>>)

\* the instructions the exhaustive enumeration draws from
Alphabet ==
  {MovInstruction(r("ax"), r("bx")),
   MovInstruction(r("bx"), r("ax")),
   MovInstruction(r("sp"), r("bx")),
   MovInstruction(r("ax"), IntegerOperand("1")),
   g1("push", r("bx")),
   g1("pop", r("ax")),
   RET,
   g1("call", v("F")),
   JccInstruction("jz", v("L")),
   JmpInstruction("jmp", v("L"))}

LabelNames == {"F", "L"}

LabelTables(n) ==
  UNION {[names -> 0..(n - 1)] : names \in SUBSET LabelNames}

EnumeratedPrograms ==
  UNION {{Program(instrs, lt) : instrs \in [1..n -> Alphabet], lt \in LabelTables(n)} :
           n \in 1..MaxLen}

\* the end-to-end scenarios S1..S6
ScenarioS1 == Program(<<MovInstruction(r("ax"), r("bx"))>>, NoLabels)
ScenarioS2 == Program(<<g1("push", r("bx")), g1("pop", r("ax")), RET>>, NoLabels)
ScenarioS3 ==
  Program(<<g1("push", r("ax")), MovInstruction(r("sp"), r("bx")), g1("pop", r("ax")), RET>>,
          NoLabels)
ScenarioS4 ==
  Program(<<g2("cmp", r("ax"), r("bx")), JccInstruction("jz", v("L")),
            MovInstruction(r("cx"), r("dx")), RET>>,
          [L |-> 3])
ScenarioS5 == Program(<<g1("call", v("F")), RET, RET>>, [F |-> 2])
ScenarioS6 ==
  Program(<<g1("call", v("F")), MovInstruction(r("bx"), r("ax")), RET,
            MovInstruction(r("ax"), IntegerOperand("1")), RET>>,
          [F |-> 3])

Scenarios == {ScenarioS1, ScenarioS2, ScenarioS3, ScenarioS4, ScenarioS5, ScenarioS6}

\* longer streams: a register swap, a loop whose summary grows over several sweeps,
\* a callee that pops, and two callees that share a tail
SwapProgram ==
  Program(<<MovInstruction(r("ax"), r("bx")), MovInstruction(r("bx"), r("ax")), RET>>,
          NoLabels)
LoopProgram ==
  Program(<<MovInstruction(r("ax"), r("bx")), JmpInstruction("jmp", v("M")),
            MovInstruction(r("ax"), IntegerOperand("1")), JccInstruction("jz", v("L")),
            RET>>,
          [L |-> 0, M |-> 4])
PoppingCalleeProgram ==
  Program(<<g1("call", v("F")), RET, g1("pop", r("ax")), RET>>, [F |-> 2])
SharedTailProgram ==
  Program(<<g1("call", v("F")), g1("call", v("G")), RET,
            MovInstruction(r("ax"), r("bx")), RET, JmpInstruction("jmp", v("L"))>>,
          [F |-> 3, L |-> 4, G |-> 5])
SharedPoppingTailProgram ==
  Program(<<g1("call", v("F")), g1("call", v("G")), RET,
            MovInstruction(r("ax"), r("bx")), g1("pop", r("ax")), RET,
            JmpInstruction("jmp", v("L"))>>,
          [F |-> 3, L |-> 4, G |-> 6])

\* a caller that reads, after the call, a register the callee writes and one it does not
CallerReadsTwoProgram ==
  Program(<<g1("call", v("F")), g2("cmp", r("ax"), r("bx")), RET,
            MovInstruction(r("ax"), IntegerOperand("1")), RET>>,
          [F |-> 3])

\* a conditional jump at X whose target T learns of the RET one sweep after X did, and
\* a jump back to X at a higher index
LateBranchProgram ==
  Program(<<JmpInstruction("jmp", v("R")), g1("push", r("bx")), JmpInstruction("jmp", v("M")),
            JccInstruction("jz", v("T")), RET, JmpInstruction("jmp", v("X"))>>,
          [M |-> 0, T |-> 1, X |-> 3, R |-> 4])

\* a callee that returns through a conditional jump to the name RET before it
\* overwrites the register its caller reads
ConditionalReturnProgram ==
  Program(<<g1("call", v("F")), MovInstruction(r("bx"), r("ax")), RET,
            JccInstruction("jz", v("RET")), MovInstruction(r("ax"), IntegerOperand("1")),
            RET>>,
          [F |-> 3])

\* a jump through a register between two labels, ahead of a write of the low byte
\* of a register that is read whole afterwards
UnresolvedJumpProgram ==
  Program(<<JmpInstruction("jmp", r("bx")), MovInstruction(r("al"), IntegerOperand("1")),
            g1("push", r("ax")), RET>>,
          [A |-> 0, B |-> 1])

LongerPrograms ==
  {SwapProgram, LoopProgram, PoppingCalleeProgram, SharedTailProgram,
   SharedPoppingTailProgram, CallerReadsTwoProgram, LateBranchProgram,
   ConditionalReturnProgram, UnresolvedJumpProgram}

Programs == EnumeratedPrograms \cup Scenarios \cup LongerPrograms

\* the characters the input texts are made of, and the texts
CharSet == {"j", "p", " ", "\n", SUB, "[", "]", "+", ":"}

Texts == UNION {[1..n -> CharSet] : n \in 0..MaxText}

(***************************************************************************)
(* State.                                                                  *)
(***************************************************************************)
VARIABLES
  text,           \* the content of the input file
  asmText,        \* what trimSub returned
  tokens,         \* what tokenize returned
  lines,          \* parseLines: the lines pushed so far
  instructions,   \* the instruction array
  labels,         \* the label table
  pc,             \* the phase of main that is running
  writesFrom,     \* analyzeWrites: the table of write summaries
  i,              \* the loop index of the sweep in progress
  changed,        \* the changed flag of the loop in progress
  labelGraph,     \* markFunctions: adjacency lists of the labelled indices
  functionEntries,        \* markFunctions: the entry set, in insertion order
  livenessFunctionEntries, \* analyzeLiveness: its own functionEntries set
  returnOriginMap,        \* analyzeLiveness: ret index -> entries returning there
  callOriginMap,          \* analyzeLiveness: entry -> indices of the calls to it
  livenessTable,          \* analyzeLiveness: liveBefore of every index
  functionReturns,        \* analyzeLiveness: entry -> returned registers
  args,           \* a function applied on its own: its name and arguments
  result          \* a function applied on its own: what it returned

markVars == <<labelGraph, functionEntries>>
liveVars ==
  <<livenessFunctionEntries, returnOriginMap, callOriginMap, livenessTable, functionReturns>>
frontVars == <<text, asmText, tokens, lines>>
analysisVars == <<instructions, labels, writesFrom, changed, markVars, liveVars>>
vars ==
  <<frontVars, instructions, labels, pc, writesFrom, i, changed, markVars, liveVars,
    args, result>>

N == Cardinality(DOMAIN instructions)

hasLabel(name) == name \in DOMAIN labels

(***************************************************************************)
(* analyzeWrites (src/main.ts:907-997).                                    *)
(***************************************************************************)
movMapping(destReg, srcReg) ==
  LET subs == {key \in DOMAIN SUB_REGS(destReg) : key \in DOMAIN SUB_REGS(srcReg)}
      subMap ==
        [d \in {SUB_REGS(destReg)[key] : key \in subs} |->
           LET key == CHOOSE key \in subs : SUB_REGS(destReg)[key] = d
           IN Reg(SUB_REGS(srcReg)[key])]
  IN subMap @@ (destReg :> Reg(srcReg)) @@ [reg \in expandAliases({destReg}) |-> AnyValue]

\* a fall-back mapping that clobbers every register, whatever the instruction defines
anyMappingEveryRegister(instruction) == [reg \in REG_NAMES |-> AnyValue]

\* the mapping of the fall-back rule: every alias of every defined register is clobbered
anyMapping(instruction) ==
  [reg \in expandAliases(instructionIO(instruction)[2]) |-> AnyValue]

\* a mov to sp that keeps the summary of its successor
movToSpKeepsSuffix(nextWriteData) == nextWriteData

\* the summary of a mov whose destination is sp: the successor's summary is discarded
movToSpWriteData(nextWriteData) == emptyWriteData

\* the summary the transfer rule of instruction idx yields from table
newWriteData(table, idx) ==
  LET instruction == instructions[idx]
      nextWriteData == IF idx + 1 < N THEN table[idx + 1] ELSE emptyWriteData
      fallback == seqWrites(nextWriteData, anyMapping(instruction))
  IN CASE instruction.type = "MovInstruction" ->
            IF instruction.dest.type = "RegisterOperand" /\ instruction.dest.reg = "sp"
            THEN movToSpWriteData(nextWriteData)
            ELSE IF /\ instruction.dest.type = "RegisterOperand"
                    /\ instruction.src.type = "RegisterOperand"
                 THEN seqWrites(nextWriteData,
                                movMapping(instruction.dest.reg, instruction.src.reg))
                 ELSE fallback
       [] instruction.type = "JmpInstruction" ->
            IF instruction.target.type = "VariableOperand" /\ hasLabel(instruction.target.name)
            THEN table[labels[instruction.target.name]]
            ELSE fallback
       [] instruction.type = "JccInstruction" ->
            IF instruction.target.type = "VariableOperand" /\ hasLabel(instruction.target.name)
            THEN mergeWrites(nextWriteData, table[labels[instruction.target.name]])
            ELSE fallback
       [] OTHER ->
            CASE instruction.mnemonic = "push" ->
                   popWrites(nextWriteData, 2,
                             IF Len(instruction.operands) > 0
                             THEN asRegister(instruction.operands[1]) ELSE Undefined)
              [] instruction.mnemonic = "pop" ->
                   LET reg == IF Len(instruction.operands) > 0
                              THEN asRegister(instruction.operands[1]) ELSE Undefined
                   IN IF reg # Undefined
                      THEN seqWrites(pushWrites(nextWriteData, 2), reg :> StackAlias(0, 2))
                      ELSE pushWrites(nextWriteData, 2)
              [] instruction.mnemonic = "ret" -> retWriteData(idx)
              [] OTHER -> fallback

AnalyzeWritesStep ==
  /\ pc = "analyzeWrites"
  /\ i >= 0
  /\ LET writeDataSrc == newWriteData(writesFrom, i)
     IN /\ writesFrom' = [writesFrom EXCEPT ![i] = updateWrites(@, writeDataSrc)]
        /\ changed' = (updateWritesChanged(writesFrom[i], writeDataSrc) \/ changed)
  /\ i' = i - 1
  /\ UNCHANGED <<frontVars, args, result>>
  /\ UNCHANGED <<instructions, labels, pc, markVars, liveVars>>

\* the end of a sweep: another sweep if a cell changed, else analyzeWrites returns
AnalyzeWritesSweepEnd ==
  /\ pc = "analyzeWrites"
  /\ i < 0
  /\ IF changed
     THEN /\ i' = N - 1
          /\ changed' = FALSE
          /\ pc' = pc
     ELSE /\ pc' = "markFunctions"
          /\ UNCHANGED <<i, changed>>
  /\ UNCHANGED <<frontVars, args, result>>
  /\ UNCHANGED <<instructions, labels, writesFrom, markVars, liveVars>>

(***************************************************************************)
(* markFunctions (src/main.ts:1172-1264).                                  *)
(***************************************************************************)
\* inverseLabels.has(idx) with a non-empty label list
isLabelled(idx) == \E name \in DOMAIN labels : labels[name] = idx

\* the resolved target of a jump or call operand, or -1
targetIndexOf(target) ==
  IF target.type = "VariableOperand" /\ hasLabel(target.name)
  THEN labels[target.name]
  ELSE -1

pushEdge(graph, from, to) ==
  IF from >= 0 THEN [graph EXCEPT ![from] = Append(@, to)] ELSE graph

\* the first loop of markFunctions, from index idx on; lastLabel is -1 for undefined
RECURSIVE buildLabelGraph(_, _, _)
buildLabelGraph(idx, lastLabel, graph) ==
  IF idx >= N THEN graph
  ELSE LET instruction == instructions[idx]
           graph1 ==
             IF isLabelled(idx)
             THEN (idx :> <<>>) @@ pushEdge(graph, lastLabel, idx)
             ELSE graph
           lastLabel1 == IF isLabelled(idx) THEN idx ELSE lastLabel
       IN CASE instruction.type = "MovInstruction" ->
                 buildLabelGraph(idx + 1, lastLabel1, graph1)
            [] instruction.type = "JmpInstruction" ->
                 buildLabelGraph(idx + 1, -1,
                   IF targetIndexOf(instruction.target) >= 0
                   THEN pushEdge(graph1, lastLabel1, targetIndexOf(instruction.target))
                   ELSE graph1)
            [] instruction.type = "JccInstruction" ->
                 buildLabelGraph(idx + 1, lastLabel1,
                   IF targetIndexOf(instruction.target) >= 0
                   THEN pushEdge(graph1, lastLabel1, targetIndexOf(instruction.target))
                   ELSE graph1)
            [] OTHER ->
                 buildLabelGraph(idx + 1,
                   IF instruction.mnemonic = "ret" THEN -1 ELSE lastLabel1, graph1)

isResolvedCall(idx) ==
  /\ instructions[idx].type = "Instruction"
  /\ instructions[idx].mnemonic = "call"
  /\ Len(instructions[idx].operands) = 1
  /\ targetIndexOf(instructions[idx].operands[1]) >= 0

callTarget(idx) == targetIndexOf(instructions[idx].operands[1])

InSeq(e, seq) == \E k \in 1..Len(seq) : seq[k] = e

\* a seeding loop that adds no call target
seedEntriesNone(idx, entries) == entries

\* the seeding loop, from index idx on: call targets in order of first call
RECURSIVE seedEntries(_, _)
seedEntries(idx, entries) ==
  IF idx >= N THEN entries
  ELSE seedEntries(idx + 1,
         IF isResolvedCall(idx) /\ ~InSeq(callTarget(idx), entries)
         THEN Append(entries, callTarget(idx))
         ELSE entries)

\* eligibility that accepts every non-negative sp
entryEligibleNonNegative(table, idx) == table[idx].sp.any \/ table[idx].sp.n >= 0

entryEligible(table, idx) == table[idx].sp.any \/ table[idx].sp.n = 0

\* search(v, owner) on the state st = [visited, owned, entries, changed]
RECURSIVE search(_, _, _)
RECURSIVE searchEdges(_, _, _, _)
search(st, node, owner) ==
  IF node # owner /\ InSeq(node, st.entries) THEN st
  ELSE IF node \in st.visited THEN st
  ELSE LET st1 == [st EXCEPT !.visited = @ \cup {node}]
           edges == IF node \in DOMAIN labelGraph THEN labelGraph[node] ELSE <<>>
       IN IF entryEligible(writesFrom, node)
          THEN IF node \in st1.owned /\ ~InSeq(node, st1.entries)
               THEN [st1 EXCEPT !.entries = Append(@, node), !.changed = TRUE]
               ELSE searchEdges([st1 EXCEPT !.owned = @ \cup {node}], edges, 1, owner)
          ELSE searchEdges(st1, edges, 1, owner)

searchEdges(st, edges, k, owner) ==
  IF k > Len(edges) THEN st
  ELSE searchEdges(search(st, edges[k], owner), edges, k + 1, owner)

\* the for loop of one pass over the snapshot of the entries, from position k on
RECURSIVE searchFromEntries(_, _, _)
searchFromEntries(st, snapshot, k) ==
  IF k > Len(snapshot) THEN st
  ELSE searchFromEntries(
         search([st EXCEPT !.visited = {}], snapshot[k], snapshot[k]), snapshot, k + 1)

\* a pass that searches from no entry and promotes nothing
markPassWithoutSearch(entries) ==
  [visited |-> {}, owned |-> {}, entries |-> entries, changed |-> FALSE]

markPass(entries) ==
  searchFromEntries([visited |-> {}, owned |-> {}, entries |-> entries, changed |-> FALSE],
                    entries, 1)

\* the label graph is built and the call targets are seeded
MarkFunctionsSeed ==
  /\ pc = "markFunctions"
  /\ labelGraph' = buildLabelGraph(0, -1, [k \in {} |-> <<>>])
  /\ functionEntries' = seedEntries(0, <<>>)
  /\ changed' = TRUE
  /\ pc' = "markFunctionsLoop"
  /\ UNCHANGED <<frontVars, args, result>>
  /\ UNCHANGED <<instructions, labels, writesFrom, i, liveVars>>

\* one iteration of the while loop; markFunctions returns after a pass without promotion
MarkFunctionsPass ==
  /\ pc = "markFunctionsLoop"
  /\ LET st == markPass(functionEntries)
     IN /\ functionEntries' = st.entries
        /\ changed' = st.changed
        /\ pc' = IF st.changed THEN pc ELSE "analyzeLiveness"
  /\ UNCHANGED <<frontVars, args, result>>
  /\ UNCHANGED <<instructions, labels, writesFrom, i, labelGraph, liveVars>>

(***************************************************************************)
(* analyzeLiveness (src/main.ts:1274-1466).                                *)
(***************************************************************************)
resolvedCalls == {c \in DOMAIN instructions : isResolvedCall(c)}

\* liveBefore of idx + 1, empty past the last instruction
\* a successor of which nothing is live
livenessNextEmpty(table, idx) == {}

livenessNext(table, idx) == IF idx + 1 < N THEN table[idx + 1] ELSE {}

\* a key set that takes every register as written
writeKeysEveryRegister(idx) == REG_NAMES

writeKeys(idx) == DOMAIN writesFrom[idx].writes

\* a return-origin map that has no ret index
originsOfReturnNone(idx) == {}

originsOfReturn(idx) ==
  IF idx \in DOMAIN returnOriginMap THEN returnOriginMap[idx] ELSE {}

originsOfCall(entry) ==
  IF entry \in DOMAIN callOriginMap THEN callOriginMap[entry] ELSE {}

\* computeFunctionReturns reads livenessTable[callIndex + 1].liveBefore for every
\* call origin; the read raises a TypeError when the call is the last instruction
computeFunctionReturnsThrows ==
  \E entry \in livenessFunctionEntries : \E callIndex \in originsOfCall(entry) :
    callIndex + 1 >= N

\* computeFunctionReturns reading liveBefore at the call instead of after it
computeFunctionReturnsAtCall(table) ==
  [entry \in livenessFunctionEntries |->
     UNION {table[callIndex] \cap writeKeys(entry) :
              callIndex \in originsOfCall(entry)}]

computeFunctionReturns(table) ==
  [entry \in livenessFunctionEntries |->
     UNION {table[callIndex + 1] \cap writeKeys(entry) :
              callIndex \in originsOfCall(entry)}]

\* the rule shared by "call" with a resolved target and the call-variant of a jump
callLiveness(table, idx, targetIndex) ==
  table[targetIndex] \cup (livenessNext(table, idx) \ writeKeys(targetIndex))

\* the contribution of a conditional jump whose target is the literal name ret
jccRetLiveness(table, idx) ==
  UNION {UNION {table[callIndex + 1] \cap writeKeys(entry) :
                  callIndex \in {c \in originsOfCall(entry) : c + 1 < N}} :
           entry \in originsOfReturn(idx)}

isRetName(name) == name \in {"ret", "RET", "Ret", "rEt", "reT", "REt", "rET", "ReT"}

\* the ordinary rule with the uses and defines of instructionIO swapped
ordinaryLivenessSwapped(table, idx) ==
  LET io == instructionIO(instructions[idx])
  IN (decomposeCoverings(livenessNext(table, idx)) \ expandCoverings(io[1])) \cup io[2]

ordinaryLiveness(table, idx) ==
  LET io == instructionIO(instructions[idx])
  IN (decomposeCoverings(livenessNext(table, idx)) \ expandCoverings(io[2])) \cup io[1]

\* the set the transfer rule of instruction idx yields from table
newLiveness(table, returns, idx) ==
  LET instruction == instructions[idx]
  IN CASE instruction.type = "MovInstruction" -> ordinaryLiveness(table, idx)
       [] instruction.type = "JmpInstruction" ->
            IF targetIndexOf(instruction.target) >= 0
            THEN IF instruction.mnemonic = "call"
                 THEN callLiveness(table, idx, targetIndexOf(instruction.target))
                 ELSE table[targetIndexOf(instruction.target)]
            ELSE ordinaryLiveness(table, idx)
       [] instruction.type = "JccInstruction" ->
            livenessNext(table, idx)
            \cup instructionIO(instruction)[1]
            \cup (IF instruction.target.type = "VariableOperand"
                  THEN IF hasLabel(instruction.target.name)
                       THEN table[labels[instruction.target.name]]
                       ELSE IF isRetName(instruction.target.name)
                            THEN jccRetLiveness(table, idx)
                            ELSE {}
                  ELSE {})
       [] OTHER ->
            CASE instruction.mnemonic = "ret" ->
                   UNION {returns[entry] : entry \in originsOfReturn(idx)}
              [] instruction.mnemonic = "call" /\ isResolvedCall(idx) ->
                   callLiveness(table, idx, callTarget(idx))
              [] OTHER -> ordinaryLiveness(table, idx)

\* processCall and the call-origin loop; the liveness table starts empty
AnalyzeLivenessSetup ==
  /\ pc = "analyzeLiveness"
  /\ livenessFunctionEntries' = {callTarget(c) : c \in resolvedCalls}
  /\ returnOriginMap' =
       LET entries == {callTarget(c) : c \in resolvedCalls}
           rets == UNION {writesFrom[e].returnsAt : e \in entries}
       IN [ret \in rets |-> {e \in entries : ret \in writesFrom[e].returnsAt}]
  /\ callOriginMap' =
       [e \in {callTarget(c) : c \in resolvedCalls} |->
          {c \in resolvedCalls : callTarget(c) = e}]
  /\ livenessTable' = [k \in DOMAIN instructions |-> {}]
  /\ functionReturns' = [k \in {} |-> {}]
  /\ changed' = TRUE
  /\ i' = -1
  /\ pc' = "livenessLoop"
  /\ UNCHANGED <<frontVars, args, result>>
  /\ UNCHANGED <<instructions, labels, writesFrom, markVars>>

\* the head of the while loop: another iteration (functionReturns recomputed first),
\* or the return statement, which computes functionReturns on the final table
AnalyzeLivenessLoopHead ==
  /\ pc = "livenessLoop"
  /\ i < 0
  /\ IF computeFunctionReturnsThrows
     THEN /\ pc' = "threw"
          /\ UNCHANGED <<i, changed, functionReturns>>
     ELSE /\ functionReturns' = computeFunctionReturns(livenessTable)
          /\ IF changed
             THEN /\ changed' = FALSE
                  /\ i' = N - 1
                  /\ pc' = pc
             ELSE /\ pc' = "done"
                  /\ UNCHANGED <<i, changed>>
  /\ UNCHANGED <<frontVars, args, result>>
  /\ UNCHANGED <<instructions, labels, writesFrom, markVars, livenessFunctionEntries,
                 returnOriginMap, callOriginMap, livenessTable>>

AnalyzeLivenessStep ==
  /\ pc = "livenessLoop"
  /\ i >= 0
  /\ LET new == newLiveness(livenessTable, functionReturns, i)
     IN /\ livenessTable' = [livenessTable EXCEPT ![i] = @ \cup new]
        /\ changed' = (changed \/ ~(new \subseteq livenessTable[i]))
  /\ i' = i - 1
  /\ UNCHANGED <<frontVars, args, result>>
  /\ UNCHANGED <<instructions, labels, pc, writesFrom, markVars, livenessFunctionEntries,
                 returnOriginMap, callOriginMap, functionReturns>>

(***************************************************************************)
(* The front end of main (src/main.ts:2-4).                                *)
(***************************************************************************)
TrimSub ==
  /\ pc = "trimSub"
  /\ asmText' = trimSub(text)
  /\ pc' = "tokenize"
  /\ UNCHANGED <<text, tokens, lines, i, analysisVars, args, result>>

Tokenize ==
  /\ pc = "tokenize"
  /\ tokens' = tokenize(asmText)
  /\ i' = 0
  /\ pc' = "parseLines"
  /\ UNCHANGED <<text, asmText, lines, analysisVars, args, result>>

\* one iteration of the while loop of parseLines; a TypeError ends the run
ParseLinesStep ==
  /\ pc = "parseLines"
  /\ i < Len(tokens)
  /\ LET st == parseLine(tokens, i)
     IN IF st.threw
        THEN /\ pc' = "parseLinesThrew"
             /\ UNCHANGED <<i, lines>>
        ELSE /\ pc' = pc
             /\ i' = st.i
             /\ lines' = IF st.line = NoOperand THEN lines ELSE Append(lines, st.line)
  /\ UNCHANGED <<text, asmText, tokens, analysisVars, args, result>>

ParseLinesReturn ==
  /\ pc = "parseLines"
  /\ i >= Len(tokens)
  /\ pc' = "parsed"
  /\ UNCHANGED <<frontVars, i, analysisVars, args, result>>

\* the analyses start from a parsed stream; the front end is not run
Init ==
  /\ text = <<>>
  /\ asmText = <<>>
  /\ tokens = <<>>
  /\ lines = <<>>
  /\ \E p \in Programs :
       /\ instructions = p.instructions
       /\ labels = p.labels
       /\ writesFrom = [k \in DOMAIN p.instructions |-> emptyWriteData]
       /\ i = Cardinality(DOMAIN p.instructions) - 1
  /\ pc = "analyzeWrites"
  /\ changed = FALSE
  /\ labelGraph = [k \in {} |-> <<>>]
  /\ functionEntries = <<>>
  /\ livenessFunctionEntries = {}
  /\ returnOriginMap = [k \in {} |-> {}]
  /\ callOriginMap = [k \in {} |-> {}]
  /\ livenessTable = [k \in {} |-> {}]
  /\ functionReturns = [k \in {} |-> {}]
  /\ args = <<>>
  /\ result = <<>>

Next ==
  \/ AnalyzeWritesStep
  \/ AnalyzeWritesSweepEnd
  \/ MarkFunctionsSeed
  \/ MarkFunctionsPass
  \/ AnalyzeLivenessSetup
  \/ AnalyzeLivenessLoopHead
  \/ AnalyzeLivenessStep

Spec == Init /\ [][Next]_vars

\* main runs to completion: a step that is possible is eventually taken
SpecFair == Spec /\ WF_vars(Next)

\* the front end on every text of at most MaxText characters
InitFrontEnd ==
  /\ text \in Texts
  /\ asmText = <<>>
  /\ tokens = <<>>
  /\ lines = <<>>
  /\ pc = "trimSub"
  /\ i = 0
  /\ instructions = [k \in {} |-> NoOperand]
  /\ labels = NoLabels
  /\ writesFrom = [k \in {} |-> emptyWriteData]
  /\ changed = FALSE
  /\ labelGraph = [k \in {} |-> <<>>]
  /\ functionEntries = <<>>
  /\ livenessFunctionEntries = {}
  /\ returnOriginMap = [k \in {} |-> {}]
  /\ callOriginMap = [k \in {} |-> {}]
  /\ livenessTable = [k \in {} |-> {}]
  /\ functionReturns = [k \in {} |-> {}]
  /\ args = <<>>
  /\ result = <<>>

NextFrontEnd ==
  \/ TrimSub
  \/ Tokenize
  \/ ParseLinesStep
  \/ ParseLinesReturn

SpecFrontEnd == InitFrontEnd /\ [][NextFrontEnd]_vars

(***************************************************************************)
(* mergeWrites and instructionIO applied on their own, to every argument   *)
(* of a bounded set.                                                       *)
(***************************************************************************)
\* the summaries analyzeWrites builds, over two keys: one that does not return
\* is empty
MergeSummaries ==
  LET MergeValues == {Reg("cx"), Reg("dx"), StackAlias(0, 2), StackAlias(2, 2), AnyValue}
      MergeMaps == UNION {[keys -> MergeValues] : keys \in SUBSET {"ax", "bx"}}
  IN {emptyWriteData} \cup
     {[writes |-> w, returnsAt |-> ra, sp |-> s] :
        w \in MergeMaps, ra \in {{1}, {2}}, s \in {SpNum(0), SpNum(2), SpAny}}

\* arithmetic instructions on a register, and movs from and to memory operands
InstructionIOInputs ==
  LET FirstOperands == {RegisterOperand("ax"), RegisterOperand("bl")}
      SecondOperands ==
        {RegisterOperand("ax"), RegisterOperand("bx"), RegisterOperand("bl"),
         IntegerOperand("1"), IndirectOperand(RegisterOperand("si"))}
      MemoryOperands ==
        {MemoryOperand(b, x, d) :
           b \in {Undefined, "bx", "bp"}, x \in {Undefined, "si", "di"},
           d \in {NoOperand, IntegerOperand("2")}}
        \ {MemoryOperand(Undefined, Undefined, NoOperand)}
  IN {GenericInstruction(m, <<d, s>>) :
        m \in {"add", "sub", "and", "or", "xor", "adc", "sbb"},
        d \in FirstOperands, s \in SecondOperands}
     \cup {GenericInstruction("neg", <<d>>) : d \in FirstOperands}
     \cup {MovInstruction(d, s) :
             d \in MemoryOperands \cup {RegisterOperand("cx")},
             s \in {RegisterOperand("ax"), IntegerOperand("1")}}
     \cup {MovInstruction(RegisterOperand("cx"), s) : s \in MemoryOperands}

InitFunctions ==
  /\ \/ \E write1 \in MergeSummaries, write2 \in MergeSummaries :
          args = [fn |-> "mergeWrites", write1 |-> write1, write2 |-> write2]
     \/ \E inst \in InstructionIOInputs :
          args = [fn |-> "instructionIO", inst |-> inst]
  /\ result = <<>>
  /\ pc = "apply"
  /\ text = <<>>
  /\ asmText = <<>>
  /\ tokens = <<>>
  /\ lines = <<>>
  /\ i = 0
  /\ instructions = [k \in {} |-> NoOperand]
  /\ labels = NoLabels
  /\ writesFrom = [k \in {} |-> emptyWriteData]
  /\ changed = FALSE
  /\ labelGraph = [k \in {} |-> <<>>]
  /\ functionEntries = <<>>
  /\ livenessFunctionEntries = {}
  /\ returnOriginMap = [k \in {} |-> {}]
  /\ callOriginMap = [k \in {} |-> {}]
  /\ livenessTable = [k \in {} |-> {}]
  /\ functionReturns = [k \in {} |-> {}]

ApplyMergeWrites ==
  /\ pc = "apply"
  /\ args.fn = "mergeWrites"
  /\ result' = mergeWrites(args.write1, args.write2)
  /\ pc' = "applied"
  /\ UNCHANGED <<frontVars, i, analysisVars, args>>

ApplyInstructionIO ==
  /\ pc = "apply"
  /\ args.fn = "instructionIO"
  /\ result' = instructionIO(args.inst)
  /\ pc' = "applied"
  /\ UNCHANGED <<frontVars, i, analysisVars, args>>

NextFunctions ==
  \/ ApplyMergeWrites
  \/ ApplyInstructionIO

SpecFunctions == InitFunctions /\ [][NextFunctions]_vars

(***************************************************************************)
(* Properties.                                                             *)
(***************************************************************************)
IsProgram(p) == instructions = p.instructions /\ labels = p.labels

analyzeWritesReturned == pc # "analyzeWrites"
markFunctionsReturned == pc \in {"analyzeLiveness", "livenessLoop", "threw", "done"}
analyzeLivenessReturned == pc = "done"

\* C1: in every state of analyzeWrites and in the returned table, a summary whose
\* returnsAt is empty has an empty writes map.
ThmC1_NoReturnNoWrites ==
  \A k \in DOMAIN writesFrom :
    writesFrom[k].returnsAt = {} => DOMAIN writesFrom[k].writes = {}

\* a register-to-register mov has been processed and its summary does not return
WitC1_MovWithoutReturn ==
  /\ pc = "analyzeWrites"
  /\ \E k \in DOMAIN writesFrom :
       /\ k > i
       /\ instructions[k].type = "MovInstruction"
       /\ instructions[k].dest.type = "RegisterOperand"
       /\ instructions[k].dest.reg # "sp"
       /\ instructions[k].src.type = "RegisterOperand"
       /\ writesFrom[k].returnsAt = {}

\* C2: the table returned by analyzeWrites has no binding k -> Reg(k).
CexC2_NoSelfBinding ==
  analyzeWritesReturned =>
    \A k \in DOMAIN writesFrom : \A key \in DOMAIN writesFrom[k].writes :
      writesFrom[k].writes[key] # Reg(key)

\* C3: across the steps of analyzeWrites the level of a binding never decreases, a
\* binding is never removed, and a binding at Any never changes.
LatticeStep ==
  \A k \in DOMAIN writesFrom : \A key \in DOMAIN writesFrom[k].writes :
    /\ key \in DOMAIN writesFrom'[k].writes
    /\ level(writesFrom'[k].writes[key]) >= level(writesFrom[k].writes[key])
    /\ writesFrom[k].writes[key] = AnyValue => writesFrom'[k].writes[key] = AnyValue

ThmC3_LatticeMonotone == [][LatticeStep]_vars

\* updateWrites is about to be offered a Reg for a key the cell already binds to Any
WitC3_AnyKeptOverReg ==
  /\ pc = "analyzeWrites"
  /\ i >= 0
  /\ \E key \in DOMAIN writesFrom[i].writes :
       /\ writesFrom[i].writes[key] = AnyValue
       /\ key \in DOMAIN newWriteData(writesFrom, i).writes
       /\ newWriteData(writesFrom, i).writes[key].kind = "reg"

spZeroOrAny(idx) == writesFrom[idx].sp = SpNum(0) \/ writesFrom[idx].sp = SpAny

\* C4 as stated: every entry returned by markFunctions, seeds included, has sp 0 or Any.
CexC4_EveryEntryEligible ==
  markFunctionsReturned =>
    \A k \in 1..Len(functionEntries) : spZeroOrAny(functionEntries[k])

callTargets == {callTarget(c) : c \in resolvedCalls}

\* C4 amended: every entry returned by markFunctions that is not the target of a call
\* with a resolved label (every promoted entry) has sp 0 or Any.
ThmC4_PromotedEntryEligible ==
  markFunctionsReturned =>
    \A k \in 1..Len(functionEntries) :
      functionEntries[k] \notin callTargets => spZeroOrAny(functionEntries[k])

\* markFunctions has returned an entry set with a promoted entry
WitC4_PromotedEntry ==
  /\ markFunctionsReturned
  /\ \E k \in 1..Len(functionEntries) : functionEntries[k] \notin callTargets

\* C5: in the returned liveness table no liveBefore holds a covering super-register
\* together with both of its sub-registers.
CexC5_Decomposed ==
  analyzeLivenessReturned =>
    \A k \in DOMAIN livenessTable : \A s \in DOMAIN REG_COVERINGS :
      ~(({s} \cup REG_COVERINGS[s]) \subseteq livenessTable[k])

\* C6: for PUSH BX ; POP AX ; RET the converged summary at 0 binds ax=bx, ah=bh,
\* al=bl, returns at {2} and has sp 0.
CexC6_PushPopIsCopy ==
  (IsProgram(ScenarioS2) /\ analyzeWritesReturned) =>
    /\ valueAt(writesFrom[0].writes, "ax") = Reg("bx")
    /\ valueAt(writesFrom[0].writes, "ah") = Reg("bh")
    /\ valueAt(writesFrom[0].writes, "al") = Reg("bl")
    /\ writesFrom[0].returnsAt = {2}
    /\ writesFrom[0].sp = SpNum(0)

\* C7 as stated: for MOV AX, BX alone the summary at 0 is {ax=bx, ah=bh, al=bl} with
\* returnsAt empty and sp 0, and liveBefore(0) is empty.
CexC7_LoneMov ==
  (IsProgram(ScenarioS1) /\ analyzeLivenessReturned) =>
    /\ writesFrom[0].writes = movMapping("ax", "bx")
    /\ writesFrom[0].returnsAt = {}
    /\ writesFrom[0].sp = SpNum(0)
    /\ livenessTable[0] = {}

\* C7 amended: for MOV AX, BX alone the summary at 0 has writes empty, returnsAt empty
\* and sp 0, and liveBefore(0) is {bx}.
ThmC7_LoneMov ==
  (IsProgram(ScenarioS1) /\ analyzeLivenessReturned) =>
    /\ DOMAIN writesFrom[0].writes = {}
    /\ writesFrom[0].returnsAt = {}
    /\ writesFrom[0].sp = SpNum(0)
    /\ livenessTable[0] = {"bx"}

WitC7_LoneMovAnalysed == IsProgram(ScenarioS1) /\ analyzeLivenessReturned

\* C8 as stated: for PUSH AX ; MOV SP, BX ; POP AX ; RET the converged summary at 0 has
\* sp Any and binds ax, ah and al to Any.
CexC8_StackClobber ==
  (IsProgram(ScenarioS3) /\ analyzeWritesReturned) =>
    /\ writesFrom[0].sp = SpAny
    /\ \A key \in {"ax", "ah", "al"} : valueAt(writesFrom[0].writes, key) = AnyValue

\* C8 amended: for PUSH AX ; MOV SP, BX ; POP AX ; RET the converged summary at 0 is
\* the no-return summary: returnsAt empty, writes empty (no binding for ax, ah or al)
\* and sp 0.
ThmC8_StackClobber ==
  (IsProgram(ScenarioS3) /\ analyzeWritesReturned) =>
    /\ writesFrom[0].sp = SpNum(0)
    /\ DOMAIN writesFrom[0].writes = {}
    /\ writesFrom[0].returnsAt = {}

\* the table of scenario S3 has been returned; the suffix after MOV SP does return
WitC8_StackClobberAnalysed ==
  /\ IsProgram(ScenarioS3)
  /\ analyzeWritesReturned
  /\ writesFrom[2].returnsAt = {3}

\* C9: for CALL F ; MOV BX, AX ; RET ; F: MOV AX, 1 ; RET the returned
\* functionReturns[F] contains ax and liveBefore at the RET ending F contains ax.
ThmC9_InterProceduralReturn ==
  (IsProgram(ScenarioS6) /\ analyzeLivenessReturned) =>
    /\ 3 \in DOMAIN functionReturns
    /\ "ax" \in functionReturns[3]
    /\ "ax" \in livenessTable[4]

WitC9_CalleeAnalysed ==
  /\ IsProgram(ScenarioS6)
  /\ analyzeLivenessReturned
  /\ "ax" \in DOMAIN writesFrom[3].writes
  /\ "ax" \in livenessTable[1]

\* C10: for CMP AX, BX ; JZ L ; MOV CX, DX ; L: RET the returned liveBefore at the CMP
\* contains ax and bx and not zf, and liveBefore at the JZ contains zf.
ThmC10_FlagLiveness ==
  (IsProgram(ScenarioS4) /\ analyzeLivenessReturned) =>
    /\ {"ax", "bx"} \subseteq livenessTable[0]
    /\ "zf" \notin livenessTable[0]
    /\ "zf" \in livenessTable[1]

WitC10_ConditionalAnalysed ==
  /\ IsProgram(ScenarioS4)
  /\ analyzeLivenessReturned
  /\ livenessTable[2] = {"dx"}

\* C11: for CALL F ; RET ; F: RET the entry set returned by markFunctions contains the
\* index of F, the returned functionReturns[F] is empty and liveBefore at CALL F is empty.
ThmC11_CallToBareRet ==
  /\ (IsProgram(ScenarioS5) /\ markFunctionsReturned) => InSeq(2, functionEntries)
  /\ (IsProgram(ScenarioS5) /\ analyzeLivenessReturned) =>
       /\ 2 \in DOMAIN functionReturns
       /\ functionReturns[2] = {}
       /\ livenessTable[0] = {}

\* the tables of scenario S5 have been returned; F returns at its own RET
WitC11_BareRetAnalysed ==
  /\ IsProgram(ScenarioS5)
  /\ analyzeLivenessReturned
  /\ writesFrom[2].returnsAt = {2}
  /\ callOriginMap[2] = {0}

\* C12: for every stream, one whose last instruction is a call to a resolved label
\* included, analyzeWrites, markFunctions and analyzeLiveness return without raising.
CexC12_NoException == pc # "threw"

frontEndReturned == pc \in {"tokenize", "parseLines", "parseLinesThrew", "parsed"}

\* C13: for every token sequence tokenize produces, one whose last line has no newline
\* sentinel included, parseLines returns a line list without raising.
CexC13_ParseLinesReturns == pc # "parseLinesThrew"

\* the part of chars that precedes its first control-Z
prefixBeforeFirstSub(chars) == SubSeq(chars, 1, scanUntil(chars, 1, {SUB}) - 1)

\* C14: trimSub returns exactly the prefix of the text that precedes the first control-Z;
\* no character after it, on the same or on a later line, reaches the tokenizer.
CexC14_TrimSubIsPrefix == frontEndReturned => asmText = prefixBeforeFirstSub(text)

\* C15: the indices that have a functionReturns entry in the result of analyzeLiveness
\* are exactly the entries markFunctions discovered, seeded or promoted.
CexC15_ReturnsForEveryEntry ==
  analyzeLivenessReturned =>
    DOMAIN functionReturns = {functionEntries[k] : k \in 1..Len(functionEntries)}

\* C16: in the result of analyzeLiveness, functionReturns[e] of every entry e of the map
\* is the union, over the calls c that target e, of liveBefore(c + 1) intersected with
\* the keys of writesFrom[e].writes, on the final liveness table.
ThmC16_ReturnsFromFinalTable ==
  analyzeLivenessReturned =>
    \A e \in DOMAIN functionReturns :
      functionReturns[e] =
        UNION {livenessTable[c + 1] \cap DOMAIN writesFrom[e].writes :
                 c \in {c \in resolvedCalls : callTarget(c) = e}}

\* a returned entry keeps a register of liveBefore(c + 1) and drops another
WitC16_ProperIntersection ==
  /\ analyzeLivenessReturned
  /\ \E e \in DOMAIN functionReturns : \E c \in resolvedCalls :
       /\ callTarget(c) = e
       /\ functionReturns[e] # {}
       /\ livenessTable[c + 1] \ functionReturns[e] # {}

\* C17: for every stream and label table, streams with backward jumps included, the
\* sweep loop of analyzeWrites eventually makes a pass without a change and returns.
ThmC17_AnalyzeWritesTerminates == <>(pc = "markFunctions")

\* analyzeWrites has returned for the stream whose conditional jump goes back to index 0
WitC17_LoopConverged ==
  /\ IsProgram(LoopProgram)
  /\ pc = "markFunctions"
  /\ labels["L"] = 0
  /\ writesFrom[0].returnsAt = {4}

\* every liveBefore set of the table keeps its members across a step of analyzeLiveness
LivenessGrows ==
  \A k \in DOMAIN livenessTable :
    k \in DOMAIN livenessTable' /\ livenessTable[k] \subseteq livenessTable'[k]

\* C18: for every stream the outer loop of analyzeLiveness eventually makes an iteration
\* in which no liveBefore set grows and returns, and during the loop every liveBefore
\* set only gains members.
CexC18_AnalyzeLivenessTerminates ==
  /\ <>analyzeLivenessReturned
  /\ [][pc = "livenessLoop" => LivenessGrows]_vars

\* C19: the table analyzeWrites returns is a fixpoint in sp too: the stored sp of every
\* index is the sp its transfer rule yields from the final table; for an unconditional
\* jump to a resolved label it is the sp stored at the target.
CexC19_SpFixpoint ==
  analyzeWritesReturned =>
    \A k \in DOMAIN writesFrom : writesFrom[k].sp = newWriteData(writesFrom, k).sp

\* instruction k is "pop reg" with a register operand
isPopOfRegister(k) ==
  /\ instructions[k].type = "Instruction"
  /\ instructions[k].mnemonic = "pop"
  /\ Len(instructions[k].operands) > 0
  /\ instructions[k].operands[1].type = "RegisterOperand"

\* C20: for "pop reg" at k whose suffix from k + 1 returns and does not bind reg, the
\* converged summary at k binds reg to Stack(0,2), holds every Stack(idx,size) binding of
\* the successor as Stack(idx+2,size), and has the sp of the successor plus 2.
CexC20_PopBindsRegister ==
  analyzeWritesReturned =>
    \A k \in DOMAIN instructions :
      (/\ isPopOfRegister(k)
       /\ k + 1 < N
       /\ writesFrom[k + 1].returnsAt # {}
       /\ instructions[k].operands[1].reg \notin DOMAIN writesFrom[k + 1].writes) =>
        /\ valueAt(writesFrom[k].writes, instructions[k].operands[1].reg) = StackAlias(0, 2)
        /\ \A key \in DOMAIN writesFrom[k + 1].writes :
             writesFrom[k + 1].writes[key].kind = "StackAlias" =>
               valueAt(writesFrom[k].writes, key) =
                 StackAlias(writesFrom[k + 1].writes[key].index + 2,
                            writesFrom[k + 1].writes[key].size)
        /\ writesFrom[k].sp =
             IF writesFrom[k + 1].sp.any THEN SpAny ELSE SpNum(writesFrom[k + 1].sp.n + 2)

isMovToSp(k) ==
  /\ instructions[k].type = "MovInstruction"
  /\ instructions[k].dest.type = "RegisterOperand"
  /\ instructions[k].dest.reg = "sp"

\* a mov, a push, a pop or another generic instruction that is not a ret
isStraightLine(k) ==
  \/ instructions[k].type = "MovInstruction"
  \/ instructions[k].type = "Instruction" /\ instructions[k].mnemonic # "ret"

noReturnSummary(k) ==
  writesFrom[k].returnsAt = {} /\ DOMAIN writesFrom[k].writes = {}

\* C21: in the table analyzeWrites returns, the summary of a mov with destination sp is
\* the no-return summary whatever its successor's summary is, and so is the summary of
\* a straight-line instruction immediately before it.
ThmC21_MovToSpDiscardsSuffix ==
  analyzeWritesReturned =>
    \A k \in DOMAIN instructions :
      /\ isMovToSp(k) => noReturnSummary(k)
      /\ (k + 1 < N /\ isMovToSp(k + 1) /\ isStraightLine(k)) => noReturnSummary(k)

\* a push stands before a mov to sp whose successor does return
WitC21_ReturningSuffixDiscarded ==
  /\ analyzeWritesReturned
  /\ \E k \in DOMAIN instructions :
       /\ k + 2 < N
       /\ instructions[k].type = "Instruction"
       /\ instructions[k].mnemonic = "push"
       /\ isMovToSp(k + 1)
       /\ writesFrom[k + 2].returnsAt # {}

applied(fn) == pc = "applied" /\ args.fn = fn

\* C22: the merge of two returning summaries binds a key to a value other
\* than Any only when both sides bind it to the same Reg or the same
\* Stack(idx,size); every other key bound on either side, a key bound on one
\* side only included, is bound to Any; returnsAt is the union and sp the
\* common value or Any.  When one side does not return, the result is the
\* other side.
CexC22_MergeIsElementwise ==
  applied("mergeWrites") =>
    LET write1 == args.write1
        write2 == args.write2
    IN IF write1.returnsAt = {} THEN result = write2
       ELSE IF write2.returnsAt = {} THEN result = write1
       ELSE /\ DOMAIN result.writes = DOMAIN write1.writes \cup DOMAIN write2.writes
            /\ \A key \in DOMAIN result.writes :
                 result.writes[key] =
                   IF /\ key \in DOMAIN write1.writes
                      /\ key \in DOMAIN write2.writes
                      /\ write1.writes[key] = write2.writes[key]
                      /\ write1.writes[key].kind \in {"reg", "StackAlias"}
                   THEN write1.writes[key]
                   ELSE AnyValue
            /\ result.returnsAt = write1.returnsAt \cup write2.returnsAt
            /\ result.sp = IF write1.sp = write2.sp THEN write1.sp ELSE SpAny

isArithmetic(inst) ==
  /\ inst.type = "Instruction"
  /\ inst.mnemonic \in {"add", "sub", "and", "or", "xor", "adc", "sbb", "neg"}
  /\ Len(inst.operands) > 0
  /\ inst.operands[1].type = "RegisterOperand"

registerOperands(inst) ==
  UNION {operandAsSrc(inst.operands[k]) : k \in 1..Len(inst.operands)}

sameRegisterTwice(inst) ==
  /\ Len(inst.operands) = 2
  /\ inst.operands[2] = inst.operands[1]

\* C23: for add, sub, and, or, xor, adc, sbb and neg on a register d,
\* instructionIO returns a defines set with d and flags and a uses set with
\* every register operand (and cf for adc and sbb); and a,a and or a,a are
\* left out, and for xor r,r defines has r and flags and uses is empty.
CexC23_ArithmeticDefinesDestination ==
  (applied("instructionIO") /\ isArithmetic(args.inst)) =>
    LET inst == args.inst
        d == inst.operands[1].reg
        uses == result[1]
        defines == result[2]
    IN IF sameRegisterTwice(inst) /\ inst.mnemonic \in {"and", "or"} THEN TRUE
       ELSE IF sameRegisterTwice(inst) /\ inst.mnemonic = "xor"
       THEN {d, "flags"} \subseteq defines /\ uses = {}
       ELSE /\ {d, "flags"} \subseteq defines
            /\ registerOperands(inst) \subseteq uses
            /\ inst.mnemonic \in {"adc", "sbb"} => "cf" \in uses

isMovToMemory(inst) ==
  inst.type = "MovInstruction" /\ inst.dest.type = "MemoryOperand"

addressRegisters(op) ==
  (IF op.baseReg # Undefined THEN {op.baseReg} ELSE {})
  \cup (IF op.indexReg # Undefined THEN {op.indexReg} ELSE {})

\* C28: for a mov to a memory operand [base + index + disp], the uses set
\* of instructionIO holds the base and the index register of the
\* destination together with the registers of the source.
CexC28_StoreUsesAddressRegisters ==
  (applied("instructionIO") /\ isMovToMemory(args.inst)) =>
    /\ addressRegisters(args.inst.dest) \subseteq result[1]
    /\ operandAsSrc(args.inst.src) \subseteq result[1]

isEntry(idx) == InSeq(idx, functionEntries)

\* one more edge of the label graph from a set of nodes, not going on from an
\* entry other than the entry the paths start at
reachStep(nodes, entry) ==
  nodes \cup
  {labelGraph[w][k] : <<w, k>> \in
     {p \in (nodes \cap DOMAIN labelGraph) \X (0..N) :
        /\ p[2] \in 1..Len(labelGraph[p[1]])
        /\ p[1] = entry \/ ~isEntry(p[1])}}

RECURSIVE reachFrom(_, _)
reachFrom(nodes, entry) ==
  IF reachStep(nodes, entry) = nodes THEN nodes
  ELSE reachFrom(reachStep(nodes, entry), entry)

\* the entries a node is reachable from without passing through another entry
ownersOf(node) ==
  {functionEntries[k] : k \in
     {n \in 1..Len(functionEntries) :
        node \in reachFrom({functionEntries[n]}, functionEntries[n])}}

\* C24: when markFunctions returns, no labelled index outside the entry set
\* whose summary has sp 0 or Any is reachable in the label graph from two
\* distinct entries along paths that pass through no other entry.
ThmC24_ClosedUnderPromotion ==
  markFunctionsReturned =>
    \A node \in DOMAIN labelGraph :
      (/\ ~isEntry(node)
       /\ writesFrom[node].sp.any \/ writesFrom[node].sp.n = 0)
      => Cardinality(ownersOf(node)) <= 1

\* a node that two call targets reach has been promoted
WitC24_SharedNodePromoted ==
  /\ markFunctionsReturned
  /\ \E node \in DOMAIN labelGraph :
       /\ isEntry(node)
       /\ \A c \in DOMAIN instructions : isResolvedCall(c) => callTarget(c) # node
       /\ Cardinality(ownersOf(node) \ {node}) >= 2

isJccToRetName(k) ==
  /\ instructions[k].type = "JccInstruction"
  /\ instructions[k].target.type = "VariableOperand"
  /\ isRetName(instructions[k].target.name)
  /\ ~hasLabel(instructions[k].target.name)

\* the indices control passes to from index k inside one function
flowSuccessors(k) ==
  LET instruction == instructions[k]
  IN CASE instruction.type = "JmpInstruction" ->
            IF targetIndexOf(instruction.target) >= 0
            THEN {targetIndexOf(instruction.target)} ELSE {}
       [] instruction.type = "JccInstruction" ->
            {k + 1} \cup
            (IF targetIndexOf(instruction.target) >= 0
             THEN {targetIndexOf(instruction.target)} ELSE {})
       [] instruction.type = "Instruction" /\ instruction.mnemonic = "ret" -> {}
       [] OTHER -> {k + 1}

flowStep(nodes) ==
  nodes \cup (UNION {flowSuccessors(k) : k \in nodes} \cap DOMAIN instructions)

RECURSIVE flowReach(_)
flowReach(nodes) == IF flowStep(nodes) = nodes THEN nodes ELSE flowReach(flowStep(nodes))

\* C25: a conditional jump at i to the name ret, which is not a label, is a
\* return edge of every function whose entry reaches it: when analyzeLiveness
\* returns, liveBefore(i) holds, for every call c to such a function e, every
\* register of liveBefore(c+1) that is a key of writesFrom[e].writes.
CexC25_JccRetIsReturnEdge ==
  analyzeLivenessReturned =>
    \A k \in DOMAIN instructions : \A c \in resolvedCalls :
      (/\ isJccToRetName(k)
       /\ k \in flowReach({callTarget(c)} \cap DOMAIN instructions)
       /\ c + 1 < N)
      => (livenessTable[c + 1] \cap DOMAIN writesFrom[callTarget(c)].writes)
           \subseteq livenessTable[k]

isRet(k) == instructions[k].type = "Instruction" /\ instructions[k].mnemonic = "ret"

\* the entries of analyzeLiveness whose summary returns at index k
entriesReturningAt(k) == {e \in DOMAIN functionReturns : k \in writesFrom[e].returnsAt}

\* C26: when analyzeLiveness returns, liveBefore of every ret index i is the
\* union of functionReturns[e] over the entries e with i in
\* writesFrom[e].returnsAt, and is empty for a ret in no entry's returnsAt.
ThmC26_RetLivenessIsReturns ==
  analyzeLivenessReturned =>
    \A k \in DOMAIN instructions :
      isRet(k) =>
        livenessTable[k] = UNION {functionReturns[e] : e \in entriesReturningAt(k)}

\* a ret that hands a register back to a caller, and a ret of no function
WitC26_RetOfFunctionAndOfNone ==
  /\ analyzeLivenessReturned
  /\ \E k \in DOMAIN instructions :
       isRet(k) /\ entriesReturningAt(k) # {} /\ livenessTable[k] # {}
  /\ \E k \in DOMAIN instructions :
       isRet(k) /\ entriesReturningAt(k) = {} /\ livenessTable[k] = {}

\* the instructions neither of the jump, conditional-jump, ret and call rules handles
isOrdinary(k) ==
  LET instruction == instructions[k]
  IN CASE instruction.type = "MovInstruction" -> TRUE
       [] instruction.type = "JmpInstruction" -> targetIndexOf(instruction.target) < 0
       [] instruction.type = "JccInstruction" -> FALSE
       [] OTHER -> ~isRet(k) /\ ~isResolvedCall(k)

liveBefore(k) == IF k < N THEN livenessTable[k] ELSE {}

\* C27: when analyzeLiveness returns, liveBefore of every index handled by the
\* ordinary rule is liveBefore(i+1) (empty past the last instruction) with
\* coverings decomposed, minus every alias of every defined register, plus
\* every used register.
ThmC27_OrdinaryRule ==
  analyzeLivenessReturned =>
    \A k \in DOMAIN instructions :
      isOrdinary(k) =>
        liveBefore(k) =
          (decomposeCoverings(liveBefore(k + 1))
             \ expandAliases(instructionIO(instructions[k])[2]))
          \cup instructionIO(instructions[k])[1]

\* a low byte is defined while the whole register is live after the instruction
WitC27_AliasOfDefinedRegisterLive ==
  /\ analyzeLivenessReturned
  /\ \E k \in DOMAIN instructions :
       /\ isOrdinary(k)
       /\ instructionIO(instructions[k])[2] = {"al"}
       /\ "ax" \in liveBefore(k + 1)
       /\ "ah" \in liveBefore(k)
       /\ "al" \notin liveBefore(k)

\* C29: in every state of analyzeWrites and in its result, every member of
\* every returnsAt is the index of a ret instruction; the index of a jump, of
\* a conditional jump or of another instruction is never a return point.
ThmC29_ReturnsAtHoldsRets ==
  \A k \in DOMAIN writesFrom : \A at \in writesFrom[k].returnsAt :
    /\ at \in DOMAIN instructions
    /\ instructions[at].type = "Instruction"
    /\ instructions[at].mnemonic = "ret"

\* during the sweeps, a jump and a conditional jump have taken over a return point
WitC29_JumpsCarryReturnPoint ==
  /\ pc = "analyzeWrites"
  /\ \E k \in DOMAIN instructions :
       instructions[k].type = "JccInstruction" /\ writesFrom[k].returnsAt # {}
  /\ \E k \in DOMAIN instructions :
       instructions[k].type = "JmpInstruction" /\ writesFrom[k].returnsAt # {}

isUnresolvedJmp(k) ==
  /\ instructions[k].type = "JmpInstruction"
  /\ instructions[k].mnemonic \in {"jmp", "jmps", "jp"}
  /\ ~(instructions[k].target.type = "VariableOperand"
       /\ hasLabel(instructions[k].target.name))

\* a jump or conditional jump of the program resolves to index b
isJumpTarget(b) ==
  \E j \in DOMAIN instructions :
    /\ instructions[j].type \in {"JmpInstruction", "JccInstruction"}
    /\ instructions[j].target.type = "VariableOperand"
    /\ hasLabel(instructions[j].target.name)
    /\ labels[instructions[j].target.name] = b

\* a is the last labelled index up to k and b the first one after k
labelsAround(a, k, b) ==
  /\ a \in DOMAIN labelGraph /\ b \in DOMAIN labelGraph
  /\ a <= k /\ k < b
  /\ \A c \in DOMAIN labelGraph : ~(a < c /\ c < b)

labelGraphBuilt == pc = "markFunctionsLoop" \/ markFunctionsReturned

\* C30: analyzeWrites treats a jmp, jmps or jp whose target is no label of
\* the label table as falling through, its converged summary having the
\* returnsAt, writes and sp of index i+1, while markFunctions lets it break
\* the fall-through from the label before it to the label after it.
ThmC30_UnresolvedJumpFallsThrough ==
  \A k \in DOMAIN instructions :
    isUnresolvedJmp(k) =>
      /\ (analyzeWritesReturned /\ k + 1 < N) =>
           /\ writesFrom[k].returnsAt = writesFrom[k + 1].returnsAt
           /\ writesFrom[k].writes = writesFrom[k + 1].writes
           /\ writesFrom[k].sp = writesFrom[k + 1].sp
      /\ labelGraphBuilt =>
           \A a \in DOMAIN labelGraph : \A b \in DOMAIN labelGraph :
             (labelsAround(a, k, b) /\ ~isJumpTarget(b)) => ~InSeq(b, labelGraph[a])

\* a jump through a register stands between two labels and before a suffix
\* that returns and writes
WitC30_JumpBetweenLabels ==
  /\ labelGraphBuilt
  /\ \E k \in DOMAIN instructions :
       /\ isUnresolvedJmp(k)
       /\ k + 1 < N
       /\ writesFrom[k].returnsAt # {}
       /\ DOMAIN writesFrom[k].writes # {}
       /\ \E a \in DOMAIN labelGraph : \E b \in DOMAIN labelGraph : labelsAround(a, k, b)
====
